---- MODULE Spec2Model ----
(***************************************************************************)
(* FinWise-AI: the document chunker (DocumentProcessor._chunk_text), the   *)
(* retrieval orchestrator (RAGService over VectorStoreService and          *)
(* LLMService) and the analytics of MLService, modelled as state machines. *)
(*                                                                         *)
(* ChunkSpec : one call of _chunk_text, one loop iteration per step.       *)
(* RagSpec   : calls of RAGService.initialize, query and                   *)
(*             add_document_to_index as asyncio tasks on one event loop.   *)
(* IndexSpec : calls of add_document_to_index and of the methods of        *)
(*             VectorStoreService on one vector store.                     *)
(* MlSpec    : one call of categorize_expenses, forecast_expenses or       *)
(*             detect_anomalies.                                           *)
(***************************************************************************)
EXTENDS Integers, Sequences, FiniteSets, TLC

VARIABLES
    \* ---- DocumentProcessor._chunk_text ----
    text,            \* argument text, a sequence of characters
    chunk_size_arg,  \* argument chunk_size: <<>> is None, <<n>> is the int n
    overlap_arg,     \* argument overlap:    <<>> is None, <<n>> is the int n
    chunks,          \* local list chunks
    start,           \* local cursor start
    chunk_id,        \* local counter chunk_id
    cpc,             \* position in _chunk_text: "loop" (at the while test) or "done" (returned chunks)
    \* ---- RAGService, VectorStoreService, LLMService ----
    initialized,     \* RAGService.initialized
    vs,              \* VectorStoreService: which of client, collection, embedding_model are set (not None),
                     \* and whether self.collection is the handle of a collection that was deleted
    store,           \* the entries of the persisted collection "financial_documents"
    llm,             \* LLMService: which of openai_client, anthropic_client are set (not None)
    now,             \* the wall clock read by time.time()
    call,            \* the calls of RAGService methods (asyncio tasks): arguments, position, locals, outcome
    running,         \* the task the event loop is executing, "" when the loop is free
    setup_log,       \* history: one entry per completed run of VectorStoreService.initialize
    \* ---- MLService ----
    ml_op,           \* the MLService method called, "" when none is
    transactions,    \* argument transactions, a list of dictionaries
    threshold,       \* argument threshold of detect_anomalies, a float
    historical_data, \* argument historical_data of forecast_expenses, a DataFrame
    periods,         \* argument periods of forecast_expenses, an int
    categories,      \* local list categories of categorize_expenses
    ml_result,       \* the value the method returned
    mpc              \* position in the method: "loop", "body" or "done"

chunkVars == <<text, chunk_size_arg, overlap_arg, chunks, start, chunk_id, cpc>>
ragVars == <<initialized, vs, store, llm, now, call, running, setup_log>>
mlVars ==
    <<ml_op, transactions, threshold, historical_data, periods, categories,
      ml_result, mpc>>

-----------------------------------------------------------------------------
(* Bounds of the model.                                                    *)

MaxLen == 10      \* longest text
MaxBreaks == 1    \* most '.' / newline characters in a text
MaxArg == 9       \* largest chunk_size / overlap argument
MaxIter == 12     \* most loop iterations explored in one call
MaxResults == 1   \* largest n_results argument of query
MaxClock == 1     \* latest clock reading
MaxHits == 2      \* largest n_results argument of a direct vector_store.search
MaxDistance == 1  \* largest distance the collection reports
MaxBatch == 2     \* most chunks in one add_document_to_index call
MaxTransactions == 2  \* most transactions handed to categorize_expenses
MaxAmounts == 5   \* most transactions handed to detect_anomalies
MaxHistory == 4   \* most rows of the DataFrame handed to forecast_expenses
MaxPeriods == 2   \* largest periods argument of forecast_expenses

(* Program constants.                                                      *)

DefaultChunkSize == 1000    \* self.chunk_size
DefaultChunkOverlap == 200  \* self.chunk_overlap
EmbeddingDimension == 384   \* self.embedding_dimension

-----------------------------------------------------------------------------
(* Python helpers used by _chunk_text.                                     *)

SetMax(S) == CHOOSE x \in S : \A y \in S : y <= x
SetMin(S) == CHOOSE x \in S : \A y \in S : x <= y
Max2(a, b) == IF a >= b THEN a ELSE b
Min2(a, b) == IF a <= b THEN a ELSE b

Letters == {"a"}
BreakChars == {".", "\n"}
Whitespace == {" ", "\n"}
Alphabet == Letters \cup BreakChars

NoneArg == <<>>
IntArg(n) == <<n>>

\* `x or default`: None and 0 are falsy.
OrDefault(arg, default) ==
    IF arg = NoneArg THEN default
    ELSE IF arg[1] = 0 THEN default ELSE arg[1]

\* A slice index as Python normalises it against a sequence of length n.
SliceIndex(k, n) == IF k < 0 THEN Max2(k + n, 0) ELSE Min2(k, n)

\* s[i:j] with 0-based, possibly negative or out-of-range indices.
Slice(s, i, j) ==
    LET lo == SliceIndex(i, Len(s))
        hi == SliceIndex(j, Len(s))
    IN  IF lo < hi THEN SubSeq(s, lo + 1, hi) ELSE <<>>

\* s.rfind(ch): the highest 0-based index of ch in s, -1 if absent.
RFind(s, ch) ==
    LET at == {k \in 1..Len(s) : s[k] = ch}
    IN  IF at = {} THEN -1 ELSE SetMax(at) - 1

\* s.strip(): leading and trailing whitespace removed.
Strip(s) ==
    LET keep == {k \in 1..Len(s) : s[k] \notin Whitespace}
    IN  IF keep = {} THEN <<>> ELSE SubSeq(s, SetMin(keep), SetMax(keep))

-----------------------------------------------------------------------------
(* DocumentProcessor._chunk_text                                           *)

ChunkSize == OrDefault(chunk_size_arg, DefaultChunkSize)
Overlap == OrDefault(overlap_arg, DefaultChunkOverlap)

\* Mutant: the halfway test is dropped, so a missing boundary (-1) is used too.
PastHalfwayAlways(break_point, size) == TRUE

\* `break_point > chunk_size * 0.5`, on integers.
PastHalfway(break_point, size) == 2 * break_point > size

\* The value of `end` after the sentence-boundary adjustment, for the
\* iteration that begins at cursor s.
ChunkEnd(s) ==
    LET end0 == s + ChunkSize
        chunk_text == Slice(text, s, end0)
        break_point == Max2(RFind(chunk_text, "."), RFind(chunk_text, "\n"))
    IN  IF end0 < Len(text) /\ PastHalfway(break_point, ChunkSize)
        THEN s + break_point + 1
        ELSE end0

\* The dictionary appended to chunks by the iteration that begins at s.
MakeChunk(id, s, e) ==
    [chunk_id   |-> id,
     text       |-> Strip(Slice(text, s, e)),
     start_char |-> s,
     end_char   |-> e,
     length     |-> Len(Slice(text, s, e))]

\* Mutant: the overlap is added instead of subtracted.
NextStartSignSlip(e) == e + Overlap

\* `start = end - overlap`
NextStart(e) == e - Overlap

\* Mutant: the counter advances by the chunk count instead of by one.
NextChunkIdByCount(id) == id + Len(chunks) + 1

\* `chunk_id += 1`
NextChunkId(id) == id + 1

\* Mutant: the while test admits start = len(text).
LoopGuardInclusive == start <= Len(text)

\* The while test.
LoopGuard == start < Len(text)

Texts ==
    UNION {
        {t \in [1..n -> Alphabet] :
            Cardinality({k \in 1..n : t[k] \in BreakChars}) <= MaxBreaks}
        : n \in 0..MaxLen}

Args == {NoneArg} \cup {IntArg(n) : n \in 0..MaxArg}

\* One iteration of the while body (lines 159-181).
LoopStep ==
    /\ cpc = "loop"
    /\ LoopGuard
    /\ Len(chunks) < MaxIter
    /\ LET e == ChunkEnd(start)
       IN  /\ chunks' = Append(chunks, MakeChunk(chunk_id, start, e))
           /\ start' = NextStart(e)
    /\ chunk_id' = NextChunkId(chunk_id)
    /\ UNCHANGED <<text, chunk_size_arg, overlap_arg, cpc>>
    /\ UNCHANGED <<ragVars, mlVars>>

\* The while test fails: `return chunks`.
Return ==
    /\ cpc = "loop"
    /\ ~LoopGuard
    /\ cpc' = "done"
    /\ UNCHANGED <<text, chunk_size_arg, overlap_arg, chunks, start, chunk_id>>
    /\ UNCHANGED <<ragVars, mlVars>>

ChunkNext == LoopStep \/ Return

-----------------------------------------------------------------------------
(* Properties of the chunker.                                              *)

\* The chunk_size / overlap the caller asks for: an omitted argument asks
\* for the instance default.
RequestedChunkSize ==
    IF chunk_size_arg = NoneArg THEN DefaultChunkSize ELSE chunk_size_arg[1]
RequestedOverlap ==
    IF overlap_arg = NoneArg THEN DefaultChunkOverlap ELSE overlap_arg[1]

\* The contract's precondition 0 <= overlap < chunk_size.
ValidChunkArgs ==
    /\ 0 <= RequestedOverlap
    /\ RequestedOverlap < RequestedChunkSize

\* Some emitted chunk was shortened by the sentence-boundary break.
SomeChunkShortened ==
    \E i \in 1..Len(chunks) :
        /\ chunks[i].end_char - chunks[i].start_char < ChunkSize
        /\ chunks[i].end_char < Len(text)
        /\ chunks[i].start_char >= 0

\* C1: for non-empty text and 0 <= overlap < chunk_size the chunking loop
\* terminates.  One iteration is a function of the cursor alone (text,
\* chunk_size and overlap do not change during a call), so a terminating
\* call never begins two iterations at the same cursor: the loop would
\* repeat between them forever.  Stated as that necessary condition.
C1_Terminates ==
    (text # <<>> /\ ValidChunkArgs) =>
        \A i, j \in 1..Len(chunks) :
            i < j => chunks[i].start_char # chunks[j].start_char

\* C2: a call with chunk_size <= overlap fails before any chunk is
\* produced: no chunk is emitted and no chunk list is returned (stated for
\* non-empty text; the empty text is C7's case).
C2_ConfigErrorFailsFast ==
    (text # <<>> /\ RequestedChunkSize <= RequestedOverlap) =>
        (chunks = <<>> /\ cpc # "done")

\* C3: for non-empty text and 0 <= overlap < chunk_size the spans of the
\* returned chunks cover the text: the first chunk starts at 0, each later
\* chunk starts no later than the previous chunk's end, and the last chunk
\* ends at or after len(text).
C3_SpansCover ==
    (cpc = "done" /\ text # <<>> /\ ValidChunkArgs) =>
        /\ Len(chunks) >= 1
        /\ chunks[1].start_char = 0
        /\ \A i \in 2..Len(chunks) :
               chunks[i].start_char <= chunks[i - 1].end_char
        /\ chunks[Len(chunks)].end_char >= Len(text)

C3_Witness ==
    /\ cpc = "done"
    /\ ValidChunkArgs
    /\ Len(chunks) >= 3
    /\ SomeChunkShortened

\* C4: the chunk_id values of the chunks of one call are exactly 0..k-1 in
\* list order, for every text and parameters.
C4_OrdinalsContiguous ==
    \A i \in 1..Len(chunks) : chunks[i].chunk_id = i - 1

C4_Witness ==
    /\ cpc = "done"
    /\ Len(chunks) >= 3
    /\ chunk_id = Len(chunks)

\* C5: for 0 <= overlap < chunk_size, start_char is non-decreasing across
\* the ordinals of the returned chunks.
C5_StartNonDecreasing ==
    (cpc = "done" /\ ValidChunkArgs) =>
        \A i \in 2..Len(chunks) :
            chunks[i].start_char >= chunks[i - 1].start_char

\* C6: for 0 <= overlap < chunk_size every emitted chunk has
\* end_char > start_char.
C6_EndAfterStart ==
    ValidChunkArgs =>
        \A i \in 1..Len(chunks) : chunks[i].end_char > chunks[i].start_char

C6_Witness ==
    /\ ValidChunkArgs
    /\ SomeChunkShortened
    /\ Len(chunks) >= 2

\* C7: chunking the empty text returns the empty sequence for any
\* chunk_size and overlap: no iteration runs, and the call returns.
C7_EmptyTextEmptyResult ==
    text = <<>> =>
        /\ chunks = <<>>
        /\ ~ENABLED LoopStep
        /\ (cpc = "done" \/ ENABLED Return)

C7_Witness ==
    /\ text = <<>>
    /\ cpc = "done"
    /\ chunks = <<>>
    /\ RequestedChunkSize <= RequestedOverlap

\* C24: for 0 <= overlap < chunk_size every emitted chunk's start_char and
\* end_char are offsets into the source text: 0 <= start_char and
\* end_char <= len(text), the final chunk included.
C24_OffsetsInText ==
    ValidChunkArgs =>
        \A i \in 1..Len(chunks) :
            /\ 0 <= chunks[i].start_char
            /\ chunks[i].end_char <= Len(text)

\* The absolute offsets of the '.' and newline characters of the text that
\* lie inside [s, s + chunk_size).
BreaksInside(s) ==
    {b \in 0..(Len(text) - 1) :
        /\ s <= b
        /\ b < s + RequestedChunkSize
        /\ text[b + 1] \in BreakChars}

\* The end the sentence-boundary rule prescribes for the slice that begins
\* at offset s.
PrescribedEnd(s) ==
    IF BreaksInside(s) # {} /\ 2 * (SetMax(BreaksInside(s)) - s) > RequestedChunkSize
    THEN SetMax(BreaksInside(s)) + 1
    ELSE s + RequestedChunkSize

\* C25: for 0 <= overlap < chunk_size and a non-final slice
\* (start + chunk_size < len(text)), with b the absolute offset of the last
\* '.' or newline inside [start, start + chunk_size): end_char is b + 1 if b
\* exists and b - start > chunk_size / 2, and start + chunk_size otherwise;
\* so the span is greater than chunk_size / 2 and at most chunk_size.
C25_SentenceBoundaryEnd ==
    ValidChunkArgs =>
        \A i \in 1..Len(chunks) :
            LET s == chunks[i].start_char
                e == chunks[i].end_char
            IN  s + RequestedChunkSize < Len(text) =>
                    /\ e = PrescribedEnd(s)
                    /\ 2 * (e - s) > RequestedChunkSize
                    /\ e - s <= RequestedChunkSize

\* C26: for every overlap with 0 <= overlap < chunk_size, overlap = 0
\* included, each chunk after the first starts at the previous chunk's
\* end_char minus the overlap the caller passed.
C26_StartIsEndMinusOverlap ==
    ValidChunkArgs =>
        \A i \in 2..Len(chunks) :
            chunks[i].start_char = chunks[i - 1].end_char - RequestedOverlap

-----------------------------------------------------------------------------
(* RAGService over VectorStoreService and LLMService.                      *)
(*                                                                         *)
(* Every method is a coroutine run as an asyncio task on one event loop.   *)
(* A task keeps the loop until it reaches an await whose awaited coroutine *)
(* really suspends; `running` is the task that holds the loop.  The four   *)
(* awaited coroutines contain no await on a pending future (their bodies   *)
(* are blocking calls), which the ...Suspends definitions record.          *)

Calls == {"t1", "t2"}
DocIds == {"docA", "docB"}
Models == {"gpt-4", "claude-3", "llama-2"}

NoInfoAnswer ==
    "I couldn't find any relevant information in the documents to answer your question."
GeneratedAnswer == "generated answer"

\* A chunk as _chunk_text produces it, with the keys add_document_to_index reads.
Chunk(id, txt) == [chunk_id |-> id, text |-> txt]

\* The caller's metadata: a mapping from keys to values, possibly empty.
NoMetadata == [k \in {} |-> ""]

\* Mutant: the caller's metadata is spread last and wins over the two keys.
MergeMetadataCallerWins(metadata, id, d) ==
    [k \in DOMAIN metadata \cup {"chunk_id", "document_id"} |->
        IF k \in DOMAIN metadata THEN metadata[k]
        ELSE IF k = "chunk_id" THEN id ELSE d]

\* `{**metadata, "chunk_id": chunk['chunk_id'], "document_id": document_id}`
MergeMetadata(metadata, id, d) ==
    [k \in DOMAIN metadata \cup {"chunk_id", "document_id"} |->
        IF k = "chunk_id" THEN id
        ELSE IF k = "document_id" THEN d ELSE metadata[k]]

\* f"{document_id}_chunk_{chunk['chunk_id']}"
ChunkEntryId(d, id) == <<d, "_chunk_", id>>

\* The three lists add_document_to_index builds and passes to
\* vector_store.add_documents (lines 177-193).
IndexRequest(d, cs, metadata) ==
    [texts     |-> [i \in 1..Len(cs) |-> cs[i].text],
     metadatas |-> [i \in 1..Len(cs) |-> MergeMetadata(metadata, cs[i].chunk_id, d)],
     ids       |-> [i \in 1..Len(cs) |-> ChunkEntryId(d, cs[i].chunk_id)]]

\* embedding_model.encode: the vector is a function of the text alone.
Encode(txt) == <<"embedding of", txt>>

\* The entry the collection keeps for position i of a request.
RequestEntry(req, embeddings, i) ==
    [id        |-> req.ids[i],
     embedding |-> embeddings[i],
     document  |-> req.texts[i],
     metadata  |-> req.metadatas[i]]

\* The entry stored for a document indexed as one chunk 0 without metadata.
Entry(d) ==
    LET req == IndexRequest(d, <<Chunk(0, "first text")>>, NoMetadata)
    IN  RequestEntry(req, <<Encode(req.texts[1])>>, 1)
Entries == {Entry(d) : d \in DocIds}

\* filter_dict: None, or an exact match on document_id.
NoFilter == [k \in {} |-> ""]
Filters == {NoFilter} \cup {[document_id |-> d] : d \in DocIds}

\* `where=filter_dict` of collection.query: exact match on every filtered field.
Matches(e, f) ==
    \A k \in DOMAIN f : k \in DOMAIN e.metadata /\ e.metadata[k] = f[k]

\* Sequences without repetition over S of length n.
Arrangements(S, n) ==
    {q \in [1..n -> S] : \A i, j \in 1..n : i # j => q[i] # q[j]}

\* The distances of n ranked neighbours: nearest first.
RankedDistances(n) ==
    {ds \in [1..n -> 0..MaxDistance] : \A i \in 1..(n - 1) : ds[i] <= ds[i + 1]}

\* What collection.query can answer (its first and only query row): the n
\* nearest matching entries, fewer when fewer match, nearest first; which
\* entries are nearest depends on the embeddings and is left open.
QueryAnswers(n, f) ==
    LET hit == {e \in store : Matches(e, f)}
        k == Min2(n, Cardinality(hit))
    IN  {[ids       |-> [i \in 1..k |-> q[i].id],
          documents |-> [i \in 1..k |-> q[i].document],
          metadatas |-> [i \in 1..k |-> q[i].metadata],
          distances |-> ds]
            : q \in Arrangements(hit, k), ds \in RankedDistances(k)}

\* Mutant: each result is put at the front of the list.
FormatResultsPrepend(results) ==
    [i \in 1..Len(results.ids) |->
        LET j == Len(results.ids) + 1 - i
        IN  [id |-> results.ids[j], document |-> results.documents[j],
             metadata |-> results.metadatas[j], distance |-> results.distances[j]]]

\* The list search builds from the answer (lines 115-123).
FormatResults(results) ==
    [i \in 1..Len(results.ids) |->
        [id |-> results.ids[i], document |-> results.documents[i],
         metadata |-> results.metadatas[i], distance |-> results.distances[i]]]

\* Whether the awaited coroutine suspends its caller (yields to the loop).
\* None of the four bodies contains an await: a task that awaits one of
\* them runs it to its end without giving up the loop.
VectorStoreInitializeSuspendsYes == TRUE
VectorStoreInitializeSuspends == FALSE
VectorStoreSearchSuspends == FALSE
VectorStoreAddDocumentsSuspends == FALSE
GenerateResponseSuspends == FALSE

\* The task holding the loop after task c reached an await on `callee`.
AfterAwait(c, callee) ==
    LET suspends ==
            CASE callee = "vs_init"  -> VectorStoreInitializeSuspends
              [] callee = "search"   -> VectorStoreSearchSuspends
              [] callee = "add"      -> VectorStoreAddDocumentsSuspends
              [] callee = "generate" -> GenerateResponseSuspends
    IN  IF suspends THEN "" ELSE c

\* Task c may take a step: it holds the loop, or the loop is free.
CanRun(c) == running = c \/ running = ""

\* VectorStoreService.__init__ (lines 16-21): no handle is set.
NoHandles ==
    [client |-> FALSE, collection |-> FALSE, embedding_model |-> FALSE,
     deleted |-> FALSE]

\* The handles after a successful initialize (lines 32-44).
AllHandles ==
    [client |-> TRUE, collection |-> TRUE, embedding_model |-> TRUE,
     deleted |-> FALSE]

\* The outcomes of one run of VectorStoreService.initialize (lines 27-46):
\* the statement that fails, if any, and the handles set before it.
VsInitRuns ==
    {[fault |-> "storage_open_failure", opened |-> {}, vs |-> vs],
     [fault |-> "collection_failure", opened |-> {"client"},
      vs |-> [vs EXCEPT !.client = TRUE]],
     [fault |-> "model_load_failure", opened |-> {"client", "collection"},
      vs |-> [vs EXCEPT !.client = TRUE, !.collection = TRUE, !.deleted = FALSE]],
     [fault |-> "", opened |-> {"client", "collection", "embedding_model"},
      vs |-> AllHandles]}

\* The history entry of one run of VectorStoreService.initialize by task c:
\* whether it succeeded, the handles it created, and the collection's
\* entries before and after it.
SetupEntry(c, run, before, after) ==
    [by |-> c, ok |-> run.fault = "", opened |-> run.opened,
     before |-> before, after |-> after]

\* The outcomes of the try body of VectorStoreService.search (lines
\* 104-126): the collaborator that fails, or the formatted results.
SearchRuns(n, f) ==
    IF ~vs.embedding_model
    THEN {[fault |-> "no_embedding_model", results |-> <<>>]}
    ELSE {[fault |-> "embedding_failure", results |-> <<>>]}
         \cup (IF ~vs.collection
               THEN {[fault |-> "no_collection", results |-> <<>>]}
               ELSE IF vs.deleted
               THEN {[fault |-> "store_failure", results |-> <<>>]}
               ELSE {[fault |-> "store_failure", results |-> <<>>]}
                    \cup {[fault |-> "", results |-> FormatResults(q)]
                            : q \in QueryAnswers(n, f)})

\* Mutant: search logs the failure and answers "nothing found".
SearchExceptSwallow(e) == [kind |-> "return", results |-> <<>>, error |-> ""]

\* VectorStoreService.search, `except Exception as e: ...; raise`.
SearchExcept(e) == [kind |-> "raise", results |-> <<>>, error |-> e]

\* What search gives its caller for one run of its body.
SearchOutcome(run) ==
    IF run.fault # ""
    THEN SearchExcept(run.fault)
    ELSE [kind |-> "return", results |-> run.results, error |-> ""]

\* The outcomes of `self.embedding_model.encode(texts, ...).tolist()` in
\* add_documents (line 69).
EmbedRuns(texts) ==
    IF ~vs.embedding_model
    THEN {[fault |-> "no_embedding_model", embeddings |-> <<>>]}
    ELSE {[fault |-> "embedding_failure", embeddings |-> <<>>],
          [fault |-> "", embeddings |-> [i \in 1..Len(texts) |-> Encode(texts[i])]]}

\* Mutant: the body awaits between encode and collection.add.
EncodeThenAddYieldsYes == TRUE

\* Whether add_documents gives up the event loop between encode (line 69)
\* and collection.add (line 72): both are plain blocking calls, there is
\* no await between them.
EncodeThenAddYields == FALSE

\* The outcomes of `self.collection.add(...)` in add_documents (lines
\* 72-77).  The code checks nothing itself and has no compensation for
\* a failed write: an id repeated within the batch is refused by the
\* collection; for an id already present the collection keeps the
\* existing entry, and whether the call raises is left to the collection;
\* a write that fails may have stored any part of the batch.
StoreRuns(req, embeddings) ==
    LET n == Len(req.ids)
        present == {e.id : e \in store}
        repeated == \E i, j \in 1..n : i < j /\ req.ids[i] = req.ids[j]
        clash == \E i \in 1..n : req.ids[i] \in present
        fresh == {RequestEntry(req, embeddings, i)
                    : i \in {k \in 1..n : req.ids[k] \notin present}}
    IN  IF ~vs.collection
        THEN {[fault |-> "no_collection", store |-> store]}
        ELSE IF vs.deleted
        THEN {[fault |-> "store_failure", store |-> store]}
        ELSE IF repeated
        THEN {[fault |-> "duplicate_id", store |-> store]}
        ELSE {[fault |-> "store_failure", store |-> store \cup part]
                : part \in SUBSET fresh}
             \cup (IF clash THEN {[fault |-> "duplicate_id", store |-> store]} ELSE {})
             \cup {[fault |-> "", store |-> store \cup fresh]}

\* The outcomes of one run of LLMService.generate_response(model) (lines
\* 68-73, 84-104, 115-131).
GenerateRuns(model) ==
    LET provider ==
            IF model \in {"gpt-4"} THEN "openai"
            ELSE IF model \in {"claude-3"} THEN "anthropic" ELSE "none"
    IN  IF provider = "none"
        THEN {[fault |-> "unsupported_model", answer |-> ""]}
        ELSE IF ~llm[provider]
        THEN {[fault |-> "client_not_initialized", answer |-> ""]}
        ELSE {[fault |-> "provider_failure", answer |-> ""],
              [fault |-> "", answer |-> GeneratedAnswer]}

\* The failures inside retrieval and inside generation.
RetrievalFaults ==
    {"no_embedding_model", "embedding_failure", "no_collection", "store_failure"}
GenerationFaults ==
    {"unsupported_model", "client_not_initialized", "provider_failure"}

\* Mutant: the short-circuit test is never taken.
NoResultsNever(rs) == FALSE

\* Mutant: the short-circuit is taken for every result list.
NoResultsAlways(rs) == TRUE

\* `if not search_results`
NoResults(rs) == rs = <<>>

\* _build_context: one labelled block per result, in ranked order.
BuildContext(rs) == [i \in 1..Len(rs) |-> <<"Source", i, rs[i].document>>]

\* The dictionary returned on the zero-results path (lines 61-67).
ZeroResult(model, elapsed) ==
    [answer          |-> NoInfoAnswer,
     sources         |-> <<>>,
     context_used    |-> <<>>,
     processing_time |-> elapsed,
     model_used      |-> model]

\* The dictionary returned on the answered path (lines 86-93).
AnsweredResult(answer, rs, model, elapsed) ==
    [answer          |-> answer,
     sources         |-> rs,
     context_used    |-> BuildContext(rs),
     processing_time |-> elapsed,
     model_used      |-> model,
     num_sources     |-> Len(rs)]

\* A method's exception reaches its caller: `except Exception as e: ...;
\* raise` of query and add_document_to_index, and the propagation out of
\* `await self.initialize()`.
Raise(c, fault) ==
    [call EXCEPT ![c].pc = "raised", ![c].fault = fault, ![c].error = fault]

\* Mutant: the handler starts the failed step again.
QueryExceptRetry(step) == step

\* The position query reaches from a failure of `step` inside its try
\* body: `except Exception as e: logger.error(...); raise` (lines 95-97).
QueryExcept(step) == "raised"

\* A call that has not started: its arguments, its position and locals,
\* and (history) the collection's entries when its write began and ended,
\* and the number of times query awaited vector_store.search and
\* llm_service.generate_response.
NewCall(op, n, model, f, d) ==
    [op |-> op, n_results |-> n, model |-> model, filter_dict |-> f,
     document_id |-> d,
     chunks |-> IF op = "add_document_to_index"
                THEN <<Chunk(0, "first text")>> ELSE <<>>,
     metadata |-> NoMetadata, ids |-> {},
     pc |-> "ready", start_time |-> 0, retrieved |-> "no",
     search_results |-> <<>>, request |-> <<>>, embeddings |-> <<>>,
     store_before |-> {}, store_after |-> {},
     searches |-> 0, generations |-> 0,
     fault |-> "", error |-> "", result |-> <<>>]

CallArgs ==
    {NewCall("initialize", 1, "gpt-4", NoFilter, "")}
    \cup {NewCall("query", n, m, f, "") : n \in 1..MaxResults, m \in Models, f \in Filters}
    \cup {NewCall("add_document_to_index", 1, "gpt-4", NoFilter, d) : d \in DocIds}

\* The chunk lists handed to add_document_to_index: 1..MaxBatch chunks with
\* chunk_id 0 or 1 in any order (repeats included) and alternating texts,
\* so that a chunk_id comes with either text.
ChunkTexts == <<"first text", "other text">>
ChunkLists ==
    UNION {
        {[i \in 1..n |-> Chunk(ids[i], ChunkTexts[(i % 2) + 1])]
            : ids \in [1..n -> 0..1]}
        : n \in 1..MaxBatch}

\* The caller's metadata: none, or keys of its own together with keys that
\* collide with the two keys add_document_to_index sets.
Metadatas ==
    {NoMetadata,
     [source |-> "bank", document_id |-> "docB", chunk_id |-> 1]}

\* add_document_to_index(document_id, chunks, metadata)
IndexCall(d, cs, metadata) ==
    [NewCall("add_document_to_index", 1, "gpt-4", NoFilter, d)
        EXCEPT !.chunks = cs, !.metadata = metadata]

\* The id lists handed to delete_documents.
IdLists == {{ChunkEntryId("docA", 0)}, {ChunkEntryId(d, 0) : d \in DocIds}}

\* The calls made on the index: add_document_to_index, and the methods of
\* VectorStoreService called directly.
IndexCallArgs ==
    {IndexCall(d, cs, m) : d \in DocIds, cs \in ChunkLists, m \in Metadatas}
    \cup {NewCall("vector_store.initialize", 1, "gpt-4", NoFilter, "")}
    \cup {NewCall("vector_store.search", n, "gpt-4", f, "")
            : n \in 1..MaxHits, f \in Filters}
    \cup {[NewCall("vector_store.delete_documents", 1, "gpt-4", NoFilter, "")
            EXCEPT !.ids = ids] : ids \in IdLists}
    \cup {NewCall("vector_store.clear_collection", 1, "gpt-4", NoFilter, "")}
    \cup {NewCall("vector_store.get_collection_stats", 1, "gpt-4", NoFilter, "")}

\* The position a task continues at once the service is initialized.
AfterInitialize(op) ==
    CASE op = "initialize"            -> "returned"
      [] op = "query"                 -> "search"
      [] op = "add_document_to_index" -> "add"

\* Mutant: the flag is not consulted, every call runs the setup.
NotInitializedAlways == TRUE

\* `if not self.initialized:` (lines 22, 49 and 172)
NotInitialized == ~initialized

\* The task starts: RAGService.initialize lines 22-24, query lines 46-50,
\* add_document_to_index lines 170-173.  With the flag set, initialize
\* returns and the others reach their await of the vector store; without
\* it the task reaches the await of vector_store.initialize().
Begin(c) ==
    /\ CanRun(c)
    /\ call[c].pc = "ready"
    /\ call[c].op \in {"initialize", "query", "add_document_to_index"}
    /\ LET next == IF NotInitialized THEN "vs_init" ELSE AfterInitialize(call[c].op)
           started == IF call[c].op = "query" THEN now ELSE call[c].start_time
       IN  /\ call' = [call EXCEPT ![c].start_time = started, ![c].pc = next]
           /\ running' = IF next = "returned" THEN "" ELSE AfterAwait(c, next)
    /\ UNCHANGED <<initialized, vs, store, llm, now, setup_log>>
    /\ UNCHANGED <<chunkVars, mlVars>>

\* vector_store.initialize() runs (vector_store.py lines 27-50) and, when
\* it succeeds, RAGService.initialize sets the flag (line 25) and the
\* task goes on as after Begin.
VsInitialize(c) ==
    /\ CanRun(c)
    /\ call[c].pc = "vs_init"
    /\ UNCHANGED <<store, llm, now>>
    /\ \E run \in VsInitRuns :
        /\ vs' = run.vs
        /\ setup_log' = Append(setup_log, SetupEntry(c, run, store, store'))
        /\ IF run.fault # ""
           THEN /\ call' = Raise(c, run.fault)
                /\ running' = ""
                /\ UNCHANGED initialized
           ELSE LET next == AfterInitialize(call[c].op)
                IN  /\ initialized' = TRUE
                    /\ call' = [call EXCEPT ![c].pc = next]
                    /\ running' = IF next = "returned" THEN "" ELSE AfterAwait(c, next)
    /\ UNCHANGED <<chunkVars, mlVars>>

\* vector_store.search() runs and query continues (lines 54-75): a
\* failure is re-raised, zero results return the fixed answer, otherwise
\* the context and prompt are built and generate_response is awaited.
Search(c) ==
    /\ CanRun(c)
    /\ call[c].pc = "search"
    /\ \E run \in SearchRuns(call[c].n_results, call[c].filter_dict) :
        LET o == SearchOutcome(run)
            seen == [call EXCEPT ![c].fault = run.fault, ![c].searches = @ + 1]
        IN  IF o.kind = "raise"
            THEN /\ call' = [Raise(c, o.error) EXCEPT
                        ![c].retrieved = "failed",
                        ![c].searches = @ + 1,
                        ![c].pc = QueryExcept("search")]
                 /\ running' = ""
            ELSE IF NoResults(o.results)
            THEN /\ call' = [seen EXCEPT
                        ![c].retrieved = "ok",
                        ![c].search_results = o.results,
                        ![c].pc = "returned",
                        ![c].result = ZeroResult(call[c].model, now - call[c].start_time)]
                 /\ running' = ""
            ELSE /\ call' = [seen EXCEPT
                        ![c].retrieved = "ok",
                        ![c].search_results = o.results,
                        ![c].pc = "generate"]
                 /\ running' = AfterAwait(c, "generate")
    /\ UNCHANGED <<initialized, vs, store, llm, now, setup_log>>
    /\ UNCHANGED <<chunkVars, mlVars>>

\* llm_service.generate_response() runs and query returns its result
\* (lines 76-93) or re-raises its failure (lines 95-97).
Generate(c) ==
    /\ CanRun(c)
    /\ call[c].pc = "generate"
    /\ \E run \in GenerateRuns(call[c].model) :
        IF run.fault # ""
        THEN call' = [Raise(c, run.fault) EXCEPT
                 ![c].generations = @ + 1,
                 ![c].pc = QueryExcept("generate")]
        ELSE call' = [call EXCEPT
                 ![c].pc = "returned",
                 ![c].generations = @ + 1,
                 ![c].result = AnsweredResult(run.answer, call[c].search_results,
                                              call[c].model, now - call[c].start_time)]
    /\ running' = ""
    /\ UNCHANGED <<initialized, vs, store, llm, now, setup_log>>
    /\ UNCHANGED <<chunkVars, mlVars>>

\* add_document_to_index builds the three lists (lines 177-186) and
\* awaits vector_store.add_documents, which encodes the texts (line 69);
\* a failure is re-raised by both (lines 81-83, 197-199).
EmbedDocuments(c) ==
    /\ CanRun(c)
    /\ call[c].pc = "add"
    /\ LET req == IndexRequest(call[c].document_id, call[c].chunks, call[c].metadata)
           began == [call EXCEPT ![c].request = req,
                                 ![c].store_before = store,
                                 ![c].store_after = store]
       IN  \E run \in EmbedRuns(req.texts) :
             IF run.fault # ""
             THEN /\ call' = [began EXCEPT ![c].pc = "raised",
                                           ![c].fault = run.fault,
                                           ![c].error = run.fault]
                  /\ running' = ""
             ELSE /\ call' = [began EXCEPT ![c].pc = "store",
                                           ![c].embeddings = run.embeddings]
                  /\ running' = IF EncodeThenAddYields THEN "" ELSE c
    /\ UNCHANGED <<initialized, vs, store, llm, now, setup_log>>
    /\ UNCHANGED <<chunkVars, mlVars>>

\* add_documents writes the batch (lines 72-77) and add_document_to_index
\* returns, or both re-raise the failure (lines 81-83, 197-199).
StoreDocuments(c) ==
    /\ CanRun(c)
    /\ call[c].pc = "store"
    /\ \E run \in StoreRuns(call[c].request, call[c].embeddings) :
        /\ store' = run.store
        /\ call' = IF run.fault # ""
                   THEN [Raise(c, run.fault) EXCEPT ![c].store_after = run.store]
                   ELSE [call EXCEPT ![c].pc = "returned",
                                     ![c].store_after = run.store]
    /\ running' = ""
    /\ UNCHANGED <<initialized, vs, llm, now, setup_log>>
    /\ UNCHANGED <<chunkVars, mlVars>>

\* The direct calls of VectorStoreService methods.  Each body contains no
\* await (clear_collection is a plain method), so a call runs to its end.

\* VectorStoreService.initialize called directly (lines 23-50): it tests
\* nothing before it creates the client, the collection handle and the
\* embedding model.
VectorStoreInitialize(c) ==
    /\ CanRun(c)
    /\ call[c].pc = "ready"
    /\ call[c].op = "vector_store.initialize"
    /\ UNCHANGED <<initialized, store, llm, now>>
    /\ \E run \in VsInitRuns :
        /\ vs' = run.vs
        /\ setup_log' = Append(setup_log, SetupEntry(c, run, store, store'))
        /\ call' = IF run.fault # "" THEN Raise(c, run.fault)
                   ELSE [call EXCEPT ![c].pc = "returned"]
    /\ running' = ""
    /\ UNCHANGED <<chunkVars, mlVars>>

\* VectorStoreService.search called directly (lines 85-130).
VectorStoreSearch(c) ==
    /\ CanRun(c)
    /\ call[c].pc = "ready"
    /\ call[c].op = "vector_store.search"
    /\ \E run \in SearchRuns(call[c].n_results, call[c].filter_dict) :
        LET o == SearchOutcome(run)
            seen == [call EXCEPT ![c].fault = run.fault, ![c].store_before = store,
                                 ![c].store_after = store]
        IN  IF o.kind = "raise"
            THEN call' = [seen EXCEPT ![c].pc = "raised", ![c].error = o.error,
                                      ![c].retrieved = "failed"]
            ELSE call' = [seen EXCEPT ![c].pc = "returned", ![c].retrieved = "ok",
                                      ![c].search_results = o.results,
                                      ![c].result = o.results]
    /\ running' = ""
    /\ UNCHANGED <<initialized, vs, store, llm, now, setup_log>>
    /\ UNCHANGED <<chunkVars, mlVars>>

\* The outcomes of `self.collection.delete(ids=ids)` (line 141): a delete
\* that fails may have removed any part of the ids.
DeleteRuns(ids) ==
    LET doomed == {e \in store : e.id \in ids}
    IN  IF ~vs.collection
        THEN {[fault |-> "no_collection", store |-> store]}
        ELSE IF vs.deleted
        THEN {[fault |-> "store_failure", store |-> store]}
        ELSE {[fault |-> "store_failure", store |-> store \ part]
                : part \in SUBSET doomed}
             \cup {[fault |-> "", store |-> store \ doomed]}

\* VectorStoreService.delete_documents (lines 132-145).
DeleteDocuments(c) ==
    /\ CanRun(c)
    /\ call[c].pc = "ready"
    /\ call[c].op = "vector_store.delete_documents"
    /\ \E run \in DeleteRuns(call[c].ids) :
        /\ store' = run.store
        /\ call' = [(IF run.fault # "" THEN Raise(c, run.fault)
                     ELSE [call EXCEPT ![c].pc = "returned"])
                     EXCEPT ![c].store_before = store, ![c].store_after = run.store]
    /\ running' = ""
    /\ UNCHANGED <<initialized, vs, llm, now, setup_log>>
    /\ UNCHANGED <<chunkVars, mlVars>>

\* Mutant: the new collection's handle is not kept.
ClearRunsHandleLost ==
    IF ~vs.client
    THEN {[fault |-> "no_client", store |-> store, vs |-> vs]}
    ELSE {[fault |-> "store_failure", store |-> store, vs |-> vs],
          [fault |-> "store_failure", store |-> {},
           vs |-> [vs EXCEPT !.deleted = vs.collection]],
          [fault |-> "", store |-> {},
           vs |-> [vs EXCEPT !.collection = FALSE, !.deleted = FALSE]]}

\* The outcomes of the try body of clear_collection (lines 169-173):
\* delete_collection fails, or create_collection fails after the
\* collection was deleted (self.collection keeps the old handle), or
\* self.collection is the handle of a new empty collection.
ClearRuns ==
    IF ~vs.client
    THEN {[fault |-> "no_client", store |-> store, vs |-> vs]}
    ELSE {[fault |-> "store_failure", store |-> store, vs |-> vs],
          [fault |-> "store_failure", store |-> {},
           vs |-> [vs EXCEPT !.deleted = vs.collection]],
          [fault |-> "", store |-> {},
           vs |-> [vs EXCEPT !.collection = TRUE, !.deleted = FALSE]]}

\* VectorStoreService.clear_collection (lines 164-177).
ClearCollection(c) ==
    /\ CanRun(c)
    /\ call[c].pc = "ready"
    /\ call[c].op = "vector_store.clear_collection"
    /\ \E run \in ClearRuns :
        /\ store' = run.store
        /\ vs' = run.vs
        /\ call' = [(IF run.fault # "" THEN Raise(c, run.fault)
                     ELSE [call EXCEPT ![c].pc = "returned"])
                     EXCEPT ![c].store_before = store, ![c].store_after = run.store]
    /\ running' = ""
    /\ UNCHANGED <<initialized, llm, now, setup_log>>
    /\ UNCHANGED <<chunkVars, mlVars>>

\* `self.collection.count()`
CollectionCount(st) == Cardinality(st)

\* The dictionary get_collection_stats returns (lines 153-162): the
\* statistics, or {} when reading them fails (the error is not raised).
CollectionStats ==
    IF ~vs.collection
    THEN {NoMetadata}
    ELSE IF vs.deleted
    THEN {NoMetadata}
    ELSE {NoMetadata,
          [total_documents     |-> CollectionCount(store),
           collection_name     |-> "financial_documents",
           embedding_dimension |-> EmbeddingDimension]}

\* VectorStoreService.get_collection_stats (lines 147-162).
GetCollectionStats(c) ==
    /\ CanRun(c)
    /\ call[c].pc = "ready"
    /\ call[c].op = "vector_store.get_collection_stats"
    /\ \E stats \in CollectionStats :
        call' = [call EXCEPT ![c].pc = "returned", ![c].result = stats,
                             ![c].store_before = store, ![c].store_after = store]
    /\ running' = ""
    /\ UNCHANGED <<initialized, vs, store, llm, now, setup_log>>
    /\ UNCHANGED <<chunkVars, mlVars>>

\* Time passes during a call (the clock is read only to measure the
\* duration of a call, lines 46, 65 and 84).
Tick ==
    /\ now < MaxClock
    /\ \E c \in Calls : call[c].pc \in {"vs_init", "search", "generate", "add", "store"}
    /\ now' = now + 1
    /\ UNCHANGED <<initialized, vs, store, llm, call, running, setup_log>>
    /\ UNCHANGED <<chunkVars, mlVars>>

RagNext ==
    \/ \E c \in Calls : Begin(c)
    \/ \E c \in Calls : VsInitialize(c)
    \/ \E c \in Calls : Search(c)
    \/ \E c \in Calls : Generate(c)
    \/ \E c \in Calls : EmbedDocuments(c)
    \/ \E c \in Calls : StoreDocuments(c)
    \/ Tick

-----------------------------------------------------------------------------
(* Floating-point arithmetic.                                              *)
(*                                                                         *)
(* The amounts, mean, std and threshold of detect_anomalies are binary     *)
(* floating-point numbers (numpy float64): every operation yields the      *)
(* representable number nearest to the exact result, ties to the even      *)
(* significand.  The model keeps that arithmetic with a significand of     *)
(* Precision bits and an unbounded exponent.  A number is m * 2^e with m   *)
(* odd, or m = 0 and e = 0.                                                *)

Precision == 3    \* bits of the significand

Zero == [m |-> 0, e |-> 0]

RECURSIVE Norm(_, _)
Norm(m, e) ==
    IF m = 0 THEN Zero
    ELSE IF m % 2 = 0 THEN Norm(m \div 2, e + 1)
    ELSE [m |-> m, e |-> e]

\* The number of bits of n > 0.
RECURSIVE BitLen(_)
BitLen(n) == IF n = 0 THEN 0 ELSE 1 + BitLen(n \div 2)

AbsInt(n) == IF n < 0 THEN 0 - n ELSE n

\* The float nearest to sign * (a / b) * 2^e, for a >= 0, b > 0.
RoundRatio(sign, a, b, e) ==
    IF a = 0 THEN Zero
    ELSE
        LET t0 == Precision - BitLen(a) + BitLen(b)
            Num(t) == IF t >= 0 THEN a * 2^t ELSE a
            Den(t) == IF t >= 0 THEN b ELSE b * 2^(0 - t)
            t == CHOOSE u \in (t0 - 1)..(t0 + 1) :
                    /\ 2^(Precision - 1) * Den(u) <= Num(u)
                    /\ Num(u) < 2^Precision * Den(u)
            q == Num(t) \div Den(t)
            r == Num(t) % Den(t)
            up == 2 * r > Den(t) \/ (2 * r = Den(t) /\ q % 2 = 1)
        IN  Norm(sign * (IF up THEN q + 1 ELSE q), e - t)

\* The float nearest to the integer n.
FromInt(n) == RoundRatio(IF n < 0 THEN -1 ELSE 1, AbsInt(n), 1, 0)

\* x + y, x - y, x * y, x / n and sqrt(x), each rounded once.
FAdd(x, y) ==
    LET lo == Min2(x.e, y.e)
        exact == x.m * 2^(x.e - lo) + y.m * 2^(y.e - lo)
    IN  RoundRatio(IF exact < 0 THEN -1 ELSE 1, AbsInt(exact), 1, lo)

FNeg(x) == [m |-> 0 - x.m, e |-> x.e]
FSub(x, y) == FAdd(x, FNeg(y))
FAbs(x) == [m |-> AbsInt(x.m), e |-> x.e]

FMul(x, y) ==
    LET exact == x.m * y.m
    IN  RoundRatio(IF exact < 0 THEN -1 ELSE 1, AbsInt(exact), 1, x.e + y.e)

FDivInt(x, n) == RoundRatio(IF x.m < 0 THEN -1 ELSE 1, AbsInt(x.m), n, x.e)

FSqrt(x) ==
    IF x.m = 0 THEN Zero
    ELSE
        \* x = m * 2^s * 4^k with s in {0, 1, ...} chosen so that the root of
        \* m * 2^s has Precision bits before the point.
        LET k0 == (x.e + BitLen(x.m) - 2 * Precision) \div 2
            Num(k) == IF x.e - 2 * k >= 0 THEN x.m * 2^(x.e - 2 * k) ELSE x.m
            Den(k) == IF x.e - 2 * k >= 0 THEN 1 ELSE 2^(2 * k - x.e)
            k == CHOOSE j \in (k0 - 2)..(k0 + 2) :
                    /\ 4^(Precision - 1) * Den(j) <= Num(j)
                    /\ Num(j) < 4^Precision * Den(j)
            q == SetMax({c \in (2^(Precision - 1))..(2^Precision - 1) :
                            c * c * Den(k) <= Num(k)})
            up == (2 * q + 1) * (2 * q + 1) * Den(k) < 4 * Num(k)
        IN  Norm(IF up THEN q + 1 ELSE q, k)

\* x > y
FGt(x, y) ==
    LET lo == Min2(x.e, y.e)
    IN  x.m * 2^(x.e - lo) > y.m * 2^(y.e - lo)

-----------------------------------------------------------------------------
(* MLService                                                               *)

\* A dictionary without keys, and t.get(key, default).
NoKeys == [k \in {} |-> ""]
Get(t, key, default) == IF key \in DOMAIN t THEN t[key] ELSE default

UpperCase ==
    <<"A", "B", "C", "D", "E", "F", "G", "H", "I", "J", "K", "L",
      "M", "N", "O", "P", "Q", "R", "S", "T", "U", "V", "W", "X",
      "Y", "Z">>
LowerCase ==
    <<"a", "b", "c", "d", "e", "f", "g", "h", "i", "j", "k", "l",
      "m", "n", "o", "p", "q", "r", "s", "t", "u", "v", "w", "x",
      "y", "z">>

\* str.lower()
LowerChar(ch) ==
    IF \E j \in 1..Len(UpperCase) : UpperCase[j] = ch
    THEN LowerCase[CHOOSE j \in 1..Len(UpperCase) : UpperCase[j] = ch]
    ELSE ch
Lower(str) == [i \in 1..Len(str) |-> LowerChar(str[i])]

\* `keyword in description_lower`
Occurs(keyword, str) ==
    \E i \in 1..(Len(str) - Len(keyword) + 1) :
        SubSeq(str, i, i + Len(keyword) - 1) = keyword

\* self.category_keywords, in the insertion order of the dictionary.
CategoryKeywords ==
    <<
      [category |-> "Food & Dining",
       keywords |-> <<
          <<"g", "r", "o", "c", "e", "r", "y">>,
          <<"f", "o", "o", "d">>,
          <<"r", "e", "s", "t", "a", "u", "r", "a", "n", "t">>,
          <<"c", "a", "f", "e">>,
          <<"d", "i", "n", "i", "n", "g">>,
          <<"p", "i", "z", "z", "a">>,
          <<"b", "u", "r", "g", "e", "r">>>>],
      [category |-> "Transportation",
       keywords |-> <<
          <<"g", "a", "s">>,
          <<"f", "u", "e", "l">>,
          <<"t", "r", "a", "n", "s", "p", "o", "r", "t">>,
          <<"u", "b", "e", "r">>,
          <<"l", "y", "f", "t">>,
          <<"t", "a", "x", "i">>,
          <<"p", "a", "r", "k", "i", "n", "g">>>>],
      [category |-> "Housing",
       keywords |-> <<
          <<"r", "e", "n", "t">>,
          <<"m", "o", "r", "t", "g", "a", "g", "e">>,
          <<"p", "r", "o", "p", "e", "r", "t", "y">>,
          <<"l", "e", "a", "s", "e">>>>],
      [category |-> "Utilities",
       keywords |-> <<
          <<"u", "t", "i", "l", "i", "t", "y">>,
          <<"e", "l", "e", "c", "t", "r", "i", "c">>,
          <<"w", "a", "t", "e", "r">>,
          <<"g", "a", "s", " ", "b", "i", "l", "l">>,
          <<"i", "n", "t", "e", "r", "n", "e", "t">>,
          <<"p", "h", "o", "n", "e">>>>],
      [category |-> "Healthcare",
       keywords |-> <<
          <<"m", "e", "d", "i", "c", "a", "l">>,
          <<"d", "o", "c", "t", "o", "r">>,
          <<"p", "h", "a", "r", "m", "a", "c", "y">>,
          <<"h", "o", "s", "p", "i", "t", "a", "l">>,
          <<"h", "e", "a", "l", "t", "h">>>>],
      [category |-> "Entertainment",
       keywords |-> <<
          <<"m", "o", "v", "i", "e">>,
          <<"t", "h", "e", "a", "t", "e", "r">>,
          <<"c", "o", "n", "c", "e", "r", "t">>,
          <<"g", "a", "m", "e">>,
          <<"n", "e", "t", "f", "l", "i", "x">>,
          <<"s", "p", "o", "t", "i", "f", "y">>>>],
      [category |-> "Shopping",
       keywords |-> <<
          <<"a", "m", "a", "z", "o", "n">>,
          <<"s", "t", "o", "r", "e">>,
          <<"m", "a", "l", "l">>,
          <<"s", "h", "o", "p">>,
          <<"r", "e", "t", "a", "i", "l">>>>],
      [category |-> "Insurance",
       keywords |-> <<
          <<"i", "n", "s", "u", "r", "a", "n", "c", "e">>,
          <<"p", "o", "l", "i", "c", "y">>,
          <<"p", "r", "e", "m", "i", "u", "m">>>>],
      [category |-> "Education",
       keywords |-> <<
          <<"s", "c", "h", "o", "o", "l">>,
          <<"t", "u", "i", "t", "i", "o", "n">>,
          <<"c", "o", "u", "r", "s", "e">>,
          <<"b", "o", "o", "k">>>>]
    >>

\* `any(keyword in description_lower for keyword in keywords)`
AnyKeyword(keywords, str) ==
    \E j \in 1..Len(keywords) : Occurs(keywords[j], str)

\* Mutant: the loop does not stop at the first matching category.
CategorizeFromLast(k, description_lower) ==
    LET hits == {h \in k..Len(CategoryKeywords) :
                    AnyKeyword(CategoryKeywords[h].keywords, description_lower)}
    IN  IF hits = {} THEN "Other" ELSE CategoryKeywords[SetMax(hits)].category

\* The for loop of _categorize_single from the k-th category on.
RECURSIVE CategorizeFrom(_, _)
CategorizeFrom(k, description_lower) ==
    IF k > Len(CategoryKeywords) THEN "Other"
    ELSE IF AnyKeyword(CategoryKeywords[k].keywords, description_lower)
    THEN CategoryKeywords[k].category
    ELSE CategorizeFrom(k + 1, description_lower)

\* _categorize_single(description)
CategorizeSingle(description) == CategorizeFrom(1, Lower(description))

\* One iteration of the loop of categorize_expenses (lines 47-50).
CategorizeStep ==
    /\ ml_op = "categorize_expenses"
    /\ mpc = "loop"
    /\ Len(categories) < Len(transactions)
    /\ LET transaction == transactions[Len(categories) + 1]
           description == Lower(Get(transaction, "description", <<>>))
       IN  categories' = Append(categories, CategorizeSingle(description))
    /\ UNCHANGED <<ml_op, transactions, threshold, historical_data, periods, ml_result, mpc>>
    /\ UNCHANGED <<chunkVars, ragVars>>

\* The loop is exhausted: `return categories`.
CategorizeReturn ==
    /\ ml_op = "categorize_expenses"
    /\ mpc = "loop"
    /\ Len(categories) = Len(transactions)
    /\ ml_result' = categories
    /\ mpc' = "done"
    /\ UNCHANGED <<ml_op, transactions, threshold, historical_data, periods, categories>>
    /\ UNCHANGED <<chunkVars, ragVars>>

\* The sum of a float list as numpy adds fewer than 8 items: left to right.
RECURSIVE FSum(_)
FSum(xs) ==
    IF Len(xs) = 1 THEN xs[1]
    ELSE FAdd(FSum(SubSeq(xs, 1, Len(xs) - 1)), xs[Len(xs)])

\* np.mean(amounts)
Mean(amounts) == FDivInt(FSum(amounts), Len(amounts))

\* np.std(amounts): the root of the mean of the squared deviations.
Std(amounts) ==
    LET arrmean == Mean(amounts)
        x == [i \in 1..Len(amounts) |-> FSub(amounts[i], arrmean)]
        squares == [i \in 1..Len(amounts) |-> FMul(x[i], x[i])]
    IN  FSqrt(FDivInt(FSum(squares), Len(amounts)))

\* `if std == 0`
ZeroSpread(std) == std = Zero

\* The list detect_anomalies returns (lines 124-139).
Anomalies(ts, th) ==
    LET amounts == [i \in 1..Len(ts) |-> FAbs(FromInt(Get(ts[i], "amount", 0)))]
    IN  IF Len(amounts) < 2
        THEN [i \in 1..Len(amounts) |-> FALSE]
        ELSE LET mean == Mean(amounts)
                 std == Std(amounts)
             IN  IF ZeroSpread(std)
                 THEN [i \in 1..Len(amounts) |-> FALSE]
                 ELSE [i \in 1..Len(amounts) |->
                          FGt(FAbs(FSub(amounts[i], mean)), FMul(th, std))]

\* detect_anomalies(transactions, threshold) runs (lines 122-139).
DetectAnomalies ==
    /\ ml_op = "detect_anomalies"
    /\ mpc = "body"
    /\ ml_result' = Anomalies(transactions, threshold)
    /\ mpc' = "done"
    /\ UNCHANGED <<ml_op, transactions, threshold, historical_data, periods, categories>>
    /\ UNCHANGED <<chunkVars, ragVars>>

\* A DataFrame: its column names in order and, per column, its values.
\* len(frame) is the number of rows.
NoFrame == [columns |-> <<>>, values |-> <<>>]
FrameLen(frame) == IF frame.values = <<>> THEN 0 ELSE Len(frame.values[1])

\* historical_data['amount'] if the frame has that column, else
\* historical_data.iloc[:, 0] (lines 88-93).
ForecastColumn(frame) ==
    LET at == {k \in 1..Len(frame.columns) : frame.columns[k] = "amount"}
    IN  IF at # {} THEN frame.values[SetMin(at)] ELSE frame.values[1]

\* Mutant: the first k values are taken.
SeriesTailAsHead(xs, k) == SubSeq(xs, 1, Min2(k, Len(xs)))

\* Series.tail(k): the last k values, all of them if there are fewer.
SeriesTail(xs, k) == SubSeq(xs, Max2(1, Len(xs) - k + 1), Len(xs))

\* Series.std(): the sample standard deviation (ddof = 1), the root of the
\* sum of the squared deviations from the mean over count - 1.
SampleStd(xs) ==
    LET avg == Mean(xs)
        sqr == [i \in 1..Len(xs) |-> FMul(FSub(avg, xs[i]), FSub(avg, xs[i]))]
    IN  FSqrt(FDivInt(FSum(sqr), Len(xs) - 1))

\* The literal 1.96 as the nearest float.
Z95 == RoundRatio(1, 196, 100, 0)

\* `[x] * n`: n copies of x, none for n <= 0.
Repeat(x, n) == [i \in 1..Max2(n, 0) |-> x]

\* Mutant: two rows are taken for enough.
InsufficientDataBelowTwo(frame) == FrameLen(frame) < 2

\* `if len(historical_data) < 3`
InsufficientData(frame) == FrameLen(frame) < 3

\* The dictionary forecast_expenses returns (lines 80-106).
Forecast(frame, n) ==
    IF InsufficientData(frame)
    THEN [forecast |-> <<>>, confidence_interval |-> <<>>,
          method |-> "insufficient_data"]
    ELSE LET column == ForecastColumn(frame)
             recent == [i \in 1..Len(SeriesTail(column, 3)) |-> FromInt(SeriesTail(column, 3)[i])]
             recent_avg == Mean(recent)
             recent_std == SampleStd(recent)
             forecast == Repeat(recent_avg, n)
         IN  [forecast |-> forecast,
              confidence_interval |->
                  [i \in 1..Len(forecast) |->
                      <<FSub(forecast[i], FMul(Z95, recent_std)),
                        FAdd(forecast[i], FMul(Z95, recent_std))>>],
              method |-> "moving_average",
              baseline |-> recent_avg]

\* forecast_expenses(historical_data, periods) runs (lines 78-106).
ForecastExpenses ==
    /\ ml_op = "forecast_expenses"
    /\ mpc = "body"
    /\ ml_result' = Forecast(historical_data, periods)
    /\ mpc' = "done"
    /\ UNCHANGED <<ml_op, transactions, threshold, historical_data, periods, categories>>
    /\ UNCHANGED <<chunkVars, ragVars>>

MlNext == CategorizeStep \/ CategorizeReturn \/ DetectAnomalies \/ ForecastExpenses

\* The descriptions of the transactions: none, the two descriptions
\* 'Grocery run at Walmart' and 'xyz123', and one or two words of a small
\* vocabulary (upper and lower case, keywords inside longer words, and
\* words that together match several categories).
GroceryRunAtWalmart ==
    <<"G", "r", "o", "c", "e", "r", "y", " ", "r", "u", "n", " ", "a", "t", " ", "W", "a", "l", "m", "a", "r", "t">>
Xyz123 == <<"x", "y", "z", "1", "2", "3">>
Words ==
    {<<"G", "a", "s">>,
     <<"b", "i", "l", "l">>,
     <<"b", "o", "o", "k", "s", "h", "o", "p">>,
     <<"P", "a", "r", "e", "n", "t">>,
     <<"t", "e", "a">>}
Descriptions ==
    {<<>>, GroceryRunAtWalmart, Xyz123}
    \cup Words
    \cup {a \o <<" ">> \o b : a \in Words, b \in Words}

\* Lists of at most n elements of S.
ListsUpTo(S, n) == UNION {[1..k -> S] : k \in 0..n}

\* The transactions handed to categorize_expenses and to detect_anomalies:
\* a dictionary with the key the method reads, or without it.
DescribedTransactions == {NoKeys} \cup {[description |-> d] : d \in Descriptions}
Amounts == {-6, 1, 7}
AmountTransactions == {NoKeys} \cup {[amount |-> a] : a \in Amounts}

\* The thresholds: 0, 0.5 and the default 2.0.
DefaultThreshold == [m |-> 1, e |-> 1]
Thresholds == {Zero, [m |-> 1, e |-> -1], DefaultThreshold}

\* The frames handed to forecast_expenses: up to MaxHistory rows with the
\* values in a column 'amount', in a first column of another name, or in a
\* column 'amount' that is not the first one; and the periods asked for,
\* a negative number included.
HistoryValues == {-6, 1, 7}
Histories == ListsUpTo(HistoryValues, MaxHistory)
Frames ==
    {[columns |-> <<"amount">>, values |-> <<xs>>] : xs \in Histories}
    \cup {[columns |-> <<"spend">>, values |-> <<xs>>] : xs \in Histories}
    \cup {[columns |-> <<"month", "amount">>,
           values |-> <<[i \in 1..Len(xs) |-> i], xs>>] : xs \in Histories}
Periods == (-1)..MaxPeriods

-----------------------------------------------------------------------------
(* Specifications.                                                         *)

vars == <<chunkVars, ragVars, mlVars>>

\* No chunking call is in progress.
ChunkIdle ==
    /\ text = <<>>
    /\ chunk_size_arg = NoneArg
    /\ overlap_arg = NoneArg
    /\ chunks = <<>>
    /\ start = 0
    /\ chunk_id = 0
    /\ cpc = "done"

\* No MLService call is in progress.
MlIdle ==
    /\ ml_op = ""
    /\ transactions = <<>>
    /\ threshold = Zero
    /\ historical_data = NoFrame
    /\ periods = 0
    /\ categories = <<>>
    /\ ml_result = <<>>
    /\ mpc = "done"

\* A freshly constructed RAGService with no call made.
RagIdle ==
    /\ initialized = FALSE
    /\ vs = NoHandles
    /\ store = {}
    /\ llm = [p \in {"openai", "anthropic"} |-> FALSE]
    /\ now = 0
    /\ call = [c \in Calls |-> NewCall("initialize", 1, "gpt-4", NoFilter, "")]
    /\ running = ""
    /\ setup_log = <<>>

\* _chunk_text is entered with some text, chunk_size and overlap (lines 140-156).
ChunkInit ==
    /\ text \in Texts
    /\ chunk_size_arg \in Args
    /\ overlap_arg \in Args
    /\ chunks = <<>>
    /\ start = 0
    /\ chunk_id = 0
    /\ cpc = "loop"
    /\ RagIdle
    /\ MlIdle

ChunkSpec == ChunkInit /\ [][ChunkNext]_vars

\* categorize_expenses, forecast_expenses or detect_anomalies is entered
\* with its arguments (ml_service.py lines 35-46, 64-78 and 108-122).
MlInit ==
    /\ ml_op \in {"categorize_expenses", "forecast_expenses", "detect_anomalies"}
    /\ transactions \in
            CASE ml_op = "categorize_expenses" ->
                    ListsUpTo(DescribedTransactions, MaxTransactions)
              [] ml_op = "detect_anomalies" ->
                    ListsUpTo(AmountTransactions, MaxAmounts)
              [] OTHER -> {<<>>}
    /\ threshold \in
            IF ml_op = "detect_anomalies" THEN Thresholds ELSE {Zero}
    /\ historical_data \in
            IF ml_op = "forecast_expenses" THEN Frames ELSE {NoFrame}
    /\ periods \in
            IF ml_op = "forecast_expenses" THEN Periods ELSE {0}
    /\ categories = <<>>
    /\ ml_result = <<>>
    /\ mpc = IF ml_op = "categorize_expenses" THEN "loop" ELSE "body"
    /\ ChunkIdle
    /\ RagIdle

MlSpec == MlInit /\ [][MlNext]_vars

\* A freshly constructed RAGService (rag_service.py lines 15-18) over a
\* persisted collection, and the calls that are about to be made on it.
RagInit ==
    /\ initialized = FALSE
    /\ vs = NoHandles
    /\ store \in {{}, {Entry("docA")}}
    /\ llm \in [{"openai", "anthropic"} -> BOOLEAN]
    /\ now = 0
    /\ call \in [Calls -> CallArgs]
    /\ running = ""
    /\ setup_log = <<>>
    /\ ChunkIdle
    /\ MlIdle

RagSpec == RagInit /\ [][RagNext]_vars

\* The calls that write, read and maintain the index.
IndexNext ==
    \/ \E c \in Calls : Begin(c)
    \/ \E c \in Calls : VsInitialize(c)
    \/ \E c \in Calls : EmbedDocuments(c)
    \/ \E c \in Calls : StoreDocuments(c)
    \/ \E c \in Calls : VectorStoreInitialize(c)
    \/ \E c \in Calls : VectorStoreSearch(c)
    \/ \E c \in Calls : DeleteDocuments(c)
    \/ \E c \in Calls : ClearCollection(c)
    \/ \E c \in Calls : GetCollectionStats(c)

\* A RAGService as constructed, or after a successful initialize at
\* startup, over a persisted collection, and the calls about to be made.
IndexInit ==
    /\ initialized \in BOOLEAN
    /\ vs = IF initialized THEN AllHandles ELSE NoHandles
    /\ store \in {{}, Entries}
    /\ llm = [p \in {"openai", "anthropic"} |-> FALSE]
    /\ now = 0
    /\ call \in [Calls -> IndexCallArgs]
    /\ running = ""
    /\ setup_log =
            IF initialized
            THEN <<[by |-> "startup", ok |-> TRUE,
                    opened |-> {"client", "collection", "embedding_model"},
                    before |-> store, after |-> store]>>
            ELSE <<>>
    /\ ChunkIdle
    /\ MlIdle

IndexSpec == IndexInit /\ [][IndexNext]_vars

-----------------------------------------------------------------------------
(* Properties of the orchestrator.                                         *)

\* C8: when retrieval returns zero results, query returns normally with
\* the fixed no-relevant-information answer, sources == [] and
\* processing_time >= 0.
C8_ZeroResultsAnswer ==
    \A c \in Calls :
        (call[c].op = "query" /\ call[c].retrieved = "ok"
            /\ call[c].search_results = <<>>) =>
            /\ call[c].pc = "returned"
            /\ call[c].error = ""
            /\ call[c].result.answer = NoInfoAnswer
            /\ call[c].result.sources = <<>>
            /\ call[c].result.processing_time >= 0

\* A query found nothing in a collection that holds entries (its filter
\* matches none) and returned after the clock had advanced.
C8_Witness ==
    \E c \in Calls :
        /\ call[c].op = "query"
        /\ call[c].retrieved = "ok"
        /\ call[c].search_results = <<>>
        /\ call[c].pc = "returned"
        /\ store # {}
        /\ call[c].result.processing_time > 0

\* C9: a failure of retrieval (embedding or store) or of generation during
\* query aborts the call and reaches the caller as that error; a failed
\* embedding or search call never yields a successful result.
C9_FailuresSurface ==
    \A c \in Calls :
        (call[c].op = "query"
            /\ call[c].fault \in RetrievalFaults \cup GenerationFaults) =>
            /\ call[c].pc = "raised"
            /\ call[c].error = call[c].fault
            /\ call[c].result = <<>>

\* One query was aborted by a failed embedding call and another by a
\* failed generation call.
C9_Witness ==
    \E c, d \in Calls :
        /\ call[c].op = "query" /\ call[c].pc = "raised"
        /\ call[c].fault = "embedding_failure"
        /\ call[d].op = "query" /\ call[d].pc = "raised"
        /\ call[d].fault = "provider_failure"

\* C10: when several callers race on the first initialize(), directly or
\* through query / add_document_to_index, the setup of the vector index is
\* performed by one caller: no two callers are inside the setup at once,
\* no setup runs after one has succeeded, and at most one succeeds.
C10_SingleFlight ==
    /\ Cardinality({c \in Calls : call[c].pc = "vs_init"}) <= 1
    /\ Cardinality({i \in 1..Len(setup_log) : setup_log[i].ok}) <= 1
    /\ \A i \in 1..Len(setup_log) : setup_log[i].ok => i = Len(setup_log)
    /\ initialized => \A c \in Calls : call[c].pc # "vs_init"

\* Every caller was pending before any setup ran; all have finished, one
\* of them ran the setup, and the others returned without running it.
C10_Witness ==
    /\ \A c \in Calls : call[c].pc = "returned"
    /\ \E c, d \in Calls : c # d /\ call[c].op # call[d].op
    /\ Len(setup_log) = 1
    /\ setup_log[1].ok

\* The failures of vector_store.initialize().
SetupFaults == {"storage_open_failure", "collection_failure", "model_load_failure"}

\* The flag stands for a successful setup, and a failed setup was reported
\* to the caller that ran it and left the flag unset.
InitializedMeansSetUp ==
    /\ initialized =>
            /\ vs = AllHandles
            /\ \E i \in 1..Len(setup_log) : setup_log[i].ok
    /\ \A i \in 1..Len(setup_log) :
            ~setup_log[i].ok =>
                /\ call[setup_log[i].by].pc = "raised"
                /\ call[setup_log[i].by].error \in SetupFaults
                /\ \A j \in 1..i : ~setup_log[j].ok
                /\ i = Len(setup_log) => ~initialized

\* A call that starts goes to the setup exactly when the flag is unset,
\* and with the flag set no step runs the setup or unsets the flag.
SetupOnlyWhileUnset ==
    /\ \A c \in Calls :
            (call[c].pc = "ready" /\ call'[c].pc # "ready") =>
                (call'[c].pc = "vs_init" <=> ~initialized)
    /\ initialized => (initialized' /\ setup_log' = setup_log)

\* C27: initialized implies that the owned vector store was set up
\* successfully; a failed setup reaches the caller and leaves initialized
\* false, so the next initialize / query / add_document_to_index call runs
\* the setup again; once initialized is true no call runs the setup.
C27_InitializedFlag == []InitializedMeansSetUp /\ [][SetupOnlyWhileUnset]_vars

\* A first caller's setup failed and reached that caller; the next caller
\* ran the setup again, it succeeded, and the flag is set.
C27_Witness ==
    /\ initialized
    /\ Len(setup_log) = 2
    /\ ~setup_log[1].ok
    /\ setup_log[2].ok
    /\ setup_log[1].by # setup_log[2].by
    /\ call[setup_log[1].by].pc = "raised"
    /\ call[setup_log[2].by].pc = "returned"

\* C28: within one query call vector_store.search is awaited at most once
\* and generate_response at most once, also when either of them fails: a
\* call that ended was served by exactly one search, and by exactly one
\* generation if the search found something and by none otherwise.
C28_NoRetry ==
    \A c \in Calls :
        call[c].op = "query" =>
            /\ call[c].searches <= 1
            /\ call[c].generations <= 1
            /\ call[c].fault \in RetrievalFaults =>
                    (call[c].searches = 1 /\ call[c].generations = 0)
            /\ call[c].fault \in GenerationFaults =>
                    (call[c].searches = 1 /\ call[c].generations = 1)

\* One query was aborted by a failed search and another by a failed
\* generation; each step had been tried once.
C28_Witness ==
    \E c, d \in Calls :
        /\ call[c].op = "query" /\ call[c].pc = "raised"
        /\ call[c].fault = "store_failure"
        /\ call[c].searches = 1 /\ call[c].generations = 0
        /\ call[d].op = "query" /\ call[d].pc = "raised"
        /\ call[d].fault = "client_not_initialized"
        /\ call[d].searches = 1 /\ call[d].generations = 1

\* C29: in query, generate_response is awaited only after retrieval
\* returned a non-empty result.  With zero results it is never called and
\* the call returns the fixed answer, whatever the model name and whether
\* or not a provider client exists; with a non-empty result and an
\* unsupported model name the call fails after the retrieval.
C29_GenerationAfterRetrieval ==
    \A c \in Calls :
        call[c].op = "query" =>
            /\ (call[c].generations > 0 \/ call[c].pc = "generate") =>
                    /\ call[c].retrieved = "ok"
                    /\ call[c].search_results # <<>>
            /\ (call[c].retrieved = "ok" /\ call[c].search_results = <<>>) =>
                    /\ call[c].generations = 0
                    /\ call[c].pc = "returned"
                    /\ call[c].error = ""
                    /\ call[c].result.answer = NoInfoAnswer
            /\ (call[c].retrieved = "ok" /\ call[c].search_results # <<>>
                    /\ call[c].model \notin {"gpt-4", "claude-3"}
                    /\ call[c].pc # "generate") =>
                    /\ call[c].pc = "raised"
                    /\ call[c].error = "unsupported_model"
                    /\ call[c].searches = 1
                    /\ call[c].generations = 1

\* With no provider client at all, a query naming an unsupported model
\* found nothing and returned the fixed answer; another one found an entry
\* and failed on the model name.
C29_Witness ==
    /\ \A p \in DOMAIN llm : ~llm[p]
    /\ \E c, d \in Calls :
        /\ call[c].op = "query" /\ call[c].model = "llama-2"
        /\ call[c].pc = "returned" /\ call[c].result.answer = NoInfoAnswer
        /\ call[c].generations = 0
        /\ call[d].op = "query" /\ call[d].model = "llama-2"
        /\ call[d].pc = "raised" /\ call[d].error = "unsupported_model"
        /\ call[d].search_results # <<>>

-----------------------------------------------------------------------------
(* Properties of indexing and of the vector store.                         *)

\* The call has handed its three lists to vector_store.add_documents.
Requested(c) ==
    /\ call[c].op = "add_document_to_index"
    /\ call[c].pc \in {"store", "returned", "raised"}
    /\ call[c].request # <<>>

\* The call's batch reached collection.add, which has answered.
WriteAnswered(c) ==
    /\ Requested(c)
    /\ call[c].pc \in {"returned", "raised"}
    /\ call[c].embeddings # <<>>

\* C11: add_document_to_index passes to add_documents, for each chunk i, the
\* id "<document_id>_chunk_<chunk_id of chunk i>", the chunk's text, and a
\* metadata mapping that contains every key of the caller's metadata and
\* has document_id equal to the document_id argument and chunk_id equal to
\* the chunk's chunk_id (these two win over same-named keys of the caller's
\* metadata); the three lists have the length and order of chunks.
C11_IndexRequest ==
    \A c \in Calls :
        Requested(c) =>
            LET req == call[c].request
                cs == call[c].chunks
            IN  /\ Len(req.ids) = Len(cs)
                /\ Len(req.texts) = Len(cs)
                /\ Len(req.metadatas) = Len(cs)
                /\ \A i \in 1..Len(cs) :
                    /\ req.ids[i] = <<call[c].document_id, "_chunk_", cs[i].chunk_id>>
                    /\ req.texts[i] = cs[i].text
                    /\ DOMAIN call[c].metadata \subseteq DOMAIN req.metadatas[i]
                    /\ req.metadatas[i]["document_id"] = call[c].document_id
                    /\ req.metadatas[i]["chunk_id"] = cs[i].chunk_id

\* A document was indexed from two chunks given out of ordinal order, with
\* caller metadata that has a key of its own and both colliding keys.
C11_Witness ==
    \E c \in Calls :
        /\ Requested(c)
        /\ call[c].pc = "returned"
        /\ Len(call[c].chunks) = 2
        /\ call[c].chunks[1].chunk_id > call[c].chunks[2].chunk_id
        /\ "source" \in DOMAIN call[c].metadata
        /\ call[c].metadata["document_id"] # call[c].document_id

\* C12: a batch add is all-or-nothing: when embedding or storing fails the
\* error is raised and the collection is as before the call, so none of
\* the batch's entries is present or can be found by a search.
C12_AllOrNothing ==
    \A c \in Calls :
        (Requested(c) /\ call[c].fault # "") =>
            /\ call[c].pc = "raised"
            /\ call[c].error = call[c].fault
            /\ call[c].store_after = call[c].store_before

\* C13: an add whose ids are all unique and not yet present increases the
\* collection's count (total_documents) by exactly len(ids); an add with
\* an id that is already present is rejected with a duplicate-id error and
\* leaves the existing entries unchanged (stated for batches the
\* collection answered without a storage failure).
C13_CountAndDuplicates ==
    \A c \in Calls :
        (WriteAnswered(c) /\ call[c].fault # "store_failure") =>
            LET ids == call[c].request.ids
                present == {e.id : e \in call[c].store_before}
                unique == \A i, j \in 1..Len(ids) : i # j => ids[i] # ids[j]
                clash == \E i \in 1..Len(ids) : ids[i] \in present
            IN  /\ (unique /\ ~clash) =>
                    /\ call[c].pc = "returned"
                    /\ CollectionCount(call[c].store_after)
                         = CollectionCount(call[c].store_before) + Len(ids)
                /\ clash =>
                    /\ call[c].pc = "raised"
                    /\ call[c].error = "duplicate_id"
                    /\ call[c].store_after = call[c].store_before

\* C14: search(query, n_results, filter) returns at most n_results
\* entries, every returned entry is present in the collection and matches
\* the filter on every filtered metadata field, and the entries are
\* ordered by non-decreasing distance.
C14_SearchResults ==
    \A c \in Calls :
        (call[c].op = "vector_store.search" /\ call[c].pc = "returned") =>
            LET rs == call[c].result
            IN  /\ Len(rs) <= call[c].n_results
                /\ \A i \in 1..Len(rs) :
                    /\ \E e \in call[c].store_before :
                        /\ e.id = rs[i].id
                        /\ e.document = rs[i].document
                        /\ e.metadata = rs[i].metadata
                    /\ \A k \in DOMAIN call[c].filter_dict :
                        /\ k \in DOMAIN rs[i].metadata
                        /\ rs[i].metadata[k] = call[c].filter_dict[k]
                /\ \A i \in 1..(Len(rs) - 1) : rs[i].distance <= rs[i + 1].distance

\* A filtered search returned two entries at different distances while the
\* collection held an entry the filter excludes.
C14_Witness ==
    \E c \in Calls :
        /\ call[c].op = "vector_store.search"
        /\ call[c].pc = "returned"
        /\ call[c].filter_dict # NoFilter
        /\ Len(call[c].result) = 2
        /\ call[c].result[1].distance < call[c].result[2].distance
        /\ \E e \in call[c].store_before : ~Matches(e, call[c].filter_dict)

\* The failures of a search that are not the search's answer to an empty
\* collection: the service was never initialized, or the embedding model
\* or the storage failed.
SearchInfrastructureFaults ==
    {"no_embedding_model", "embedding_failure", "store_failure"}

\* C15: search on an empty collection, also after every entry has been
\* deleted or the collection cleared, returns the empty list for any query
\* and any n_results > 0, without raising.
C15_EmptyIndexSearch ==
    \A c \in Calls :
        (call[c].op = "vector_store.search"
            /\ call[c].pc \in {"returned", "raised"}
            /\ call[c].store_before = {}
            /\ call[c].fault \notin SearchInfrastructureFaults) =>
            /\ call[c].pc = "returned"
            /\ call[c].result = <<>>

\* A search returned the empty list after another call had emptied a
\* collection that held entries.
C15_Witness ==
    \E c, d \in Calls :
        /\ call[c].op = "vector_store.search"
        /\ call[c].pc = "returned"
        /\ call[c].store_before = {}
        /\ call[c].result = <<>>
        /\ call[d].op \in {"vector_store.clear_collection",
                           "vector_store.delete_documents"}
        /\ call[d].pc = "returned"
        /\ call[d].store_before # {}
        /\ call[d].store_after = {}

\* The ids two calls both write.
SharedIds(c, d) ==
    {call[c].request.ids[i] : i \in 1..Len(call[c].request.ids)}
    \cap {call[d].request.ids[i] : i \in 1..Len(call[d].request.ids)}

\* C16: two add batches in flight on one vector store that target the same
\* id are serialized: no batch is between its embed and its store step
\* while another batch on one of its ids is, and every stored entry comes
\* wholly from one batch (its vector is the vector of its text).
C16_AddsSerialized ==
    /\ \A c, d \in Calls :
        (c # d /\ Requested(c) /\ Requested(d)
            /\ call[c].pc = "store" /\ call[d].pc = "store") =>
            SharedIds(c, d) = {}
    /\ \A e \in store : e.embedding = Encode(e.document)

\* Both batches were pending together, wrote the same id with different
\* texts, and both have been answered.
C16_Witness ==
    \E c, d \in Calls :
        /\ c # d
        /\ WriteAnswered(c) /\ WriteAnswered(d)
        /\ call[c].pc = "returned" /\ call[d].pc = "returned"
        /\ \E i \in 1..Len(call[c].request.ids), j \in 1..Len(call[d].request.ids) :
            /\ call[c].request.ids[i] = call[d].request.ids[j]
            /\ call[c].request.texts[i] # call[d].request.texts[j]

\* The fields of a query result.
QueryResultFields ==
    {"answer", "sources", "context_used", "processing_time", "model_used",
     "num_sources"}

\* C17: every result returned by query, on the zero-results path as well
\* as on the answered path, contains the fields answer, sources,
\* context_used, processing_time, model_used and num_sources, with
\* num_sources equal to the number of entries in sources.
C17_ResultFields ==
    \A c \in Calls :
        (call[c].op = "query" /\ call[c].pc = "returned") =>
            /\ QueryResultFields \subseteq DOMAIN call[c].result
            /\ call[c].result.num_sources = Len(call[c].result.sources)

\* C18: VectorStoreService.initialize is idempotent: a call made after a
\* successful one is a no-op: it does not reopen the storage client,
\* recreate the collection handle or reload the embedding model, and it
\* leaves the collection's entries unchanged.
C18_InitializeIdempotent ==
    \A i, j \in 1..Len(setup_log) :
        (i < j /\ setup_log[i].ok) =>
            /\ setup_log[j].opened = {}
            /\ setup_log[j].after = setup_log[j].before

-----------------------------------------------------------------------------
(* Properties of MLService.                                                *)

\* The description categorize_expenses reads from transaction i.
DescriptionOf(i) == Get(transactions[i], "description", <<>>)

\* The categories with a keyword that occurs in the lower-cased description.
KeywordHits(description) ==
    LET lowered == Lower(description)
    IN  {k \in 1..Len(CategoryKeywords) :
            \E j \in 1..Len(CategoryKeywords[k].keywords) :
                Occurs(CategoryKeywords[k].keywords[j], lowered)}

\* C19: categorize_expenses returns one label per transaction, in input
\* order; each label is the first category, in the order of the keyword
\* table, that has a keyword occurring as a substring of the lower-cased
\* description, and "Other" when no keyword of any category occurs
\* ('Grocery run at Walmart' gives 'Food & Dining', 'xyz123' gives 'Other').
C19_Categorize ==
    (ml_op = "categorize_expenses" /\ mpc = "done") =>
        /\ Len(ml_result) = Len(transactions)
        /\ \A i \in 1..Len(transactions) :
            LET hits == KeywordHits(DescriptionOf(i))
            IN  /\ hits = {} => ml_result[i] = "Other"
                /\ hits # {} =>
                    \E k \in hits :
                        /\ \A h \in hits : k <= h
                        /\ ml_result[i] = CategoryKeywords[k].category
                /\ DescriptionOf(i) = GroceryRunAtWalmart => ml_result[i] = "Food & Dining"
                /\ DescriptionOf(i) = Xyz123 => ml_result[i] = "Other"

\* Two transactions were labelled: one whose description matches keywords
\* of two categories only after lower-casing, and one that matches none.
C19_Witness ==
    /\ ml_op = "categorize_expenses"
    /\ mpc = "done"
    /\ Len(transactions) = 2
    /\ Cardinality(KeywordHits(DescriptionOf(1))) >= 2
    /\ DescriptionOf(1) # Lower(DescriptionOf(1))
    /\ ml_result[1] = "Transportation"
    /\ ml_result[2] = "Other"

\* The absolute amount detect_anomalies reads from transaction i.
AbsAmountOf(i) == AbsInt(Get(transactions[i], "amount", 0))

\* C20: detect_anomalies returns one flag per transaction, and every flag
\* is false when there are fewer than 2 transactions or when all absolute
\* amounts are equal (standard deviation 0), for any threshold.
C20_NoSpreadNoAnomaly ==
    (ml_op = "detect_anomalies" /\ mpc = "done") =>
        /\ Len(ml_result) = Len(transactions)
        /\ (\/ Len(transactions) < 2
            \/ \A i, j \in 1..Len(transactions) : AbsAmountOf(i) = AbsAmountOf(j)) =>
                \A i \in 1..Len(ml_result) : ml_result[i] = FALSE

\* The sum of AbsAmountOf over the transactions from the k-th on.
RECURSIVE AbsAmountSumFrom(_)
AbsAmountSumFrom(k) ==
    IF k > Len(transactions) THEN 0 ELSE AbsAmountOf(k) + AbsAmountSumFrom(k + 1)

\* n times the deviation of the i-th absolute amount from the mean of all
\* of them, as an integer: n * (a_i - S / n) = n * a_i - S.
ScaledDeviation(i) == Len(transactions) * AbsAmountOf(i) - AbsAmountSumFrom(1)

\* The sum of the squares of the scaled deviations from the k-th on.
RECURSIVE SquaredDeviationsFrom(_)
SquaredDeviationsFrom(k) ==
    IF k > Len(transactions) THEN 0
    ELSE ScaledDeviation(k) * ScaledDeviation(k) + SquaredDeviationsFrom(k + 1)

\* The amounts have a non-zero spread: they are not all equal.
NonZeroSpread == SquaredDeviationsFrom(1) > 0

\* |a_i - mean| > threshold * std for the population standard deviation,
\* in exact arithmetic and for threshold = m * 2^e >= 0.  With
\* d = n * a_i - S and Q the sum of the squared scaled deviations it reads
\* d^2 / n^2 > threshold^2 * Q / n^3, that is n * d^2 > m^2 * 4^e * Q.
ExceedsThreshold(i) ==
    LET n == Len(transactions)
        d == ScaledDeviation(i)
        Q == SquaredDeviationsFrom(1)
    IN  IF threshold.e >= 0
        THEN n * d * d > threshold.m * threshold.m * 4^(threshold.e) * Q
        ELSE n * d * d * 4^(0 - threshold.e) > threshold.m * threshold.m * Q

\* C21: for 2 or more transactions with non-zero spread, detect_anomalies
\* flags transaction i exactly when the absolute deviation of abs(amount_i)
\* from the mean of all abs(amount) exceeds threshold times their population
\* standard deviation, for values below the mean as for values above it and
\* whatever the sign of amount.
C21_ZScoreFlags ==
    (ml_op = "detect_anomalies" /\ mpc = "done"
        /\ Len(transactions) >= 2 /\ NonZeroSpread) =>
        /\ Len(ml_result) = Len(transactions)
        /\ \A i \in 1..Len(transactions) : ml_result[i] <=> ExceedsThreshold(i)

\* C30: with the default threshold 2.0, detect_anomalies flags no
\* transaction of an input of 2 to 5 transactions, whatever the amounts.
C30_NoFlagUpToFive ==
    (ml_op = "detect_anomalies" /\ mpc = "done"
        /\ threshold = DefaultThreshold
        /\ Len(transactions) >= 2 /\ Len(transactions) <= 5) =>
        \A i \in 1..Len(ml_result) : ~ml_result[i]

\* The history forecast_expenses reads: the frame's column 'amount', or its
\* first column when it has none of that name.
History ==
    LET named == {k \in 1..Len(historical_data.columns) :
                    historical_data.columns[k] = "amount"}
    IN  IF historical_data.values = <<>> THEN <<>>
        ELSE IF named = {} THEN historical_data.values[1]
        ELSE historical_data.values[CHOOSE k \in named : TRUE]

\* C22: forecast_expenses on a history with fewer than 3 values returns
\* method "insufficient_data" with an empty forecast and an empty
\* confidence_interval, for any periods: the call returns that dictionary.
C22_InsufficientData ==
    (ml_op = "forecast_expenses" /\ mpc = "done" /\ Len(History) < 3) =>
        /\ ml_result.method = "insufficient_data"
        /\ ml_result.forecast = <<>>
        /\ ml_result.confidence_interval = <<>>

\* A history of two values was refused although periods were asked for.
C22_Witness ==
    /\ ml_op = "forecast_expenses"
    /\ mpc = "done"
    /\ Len(History) = 2
    /\ periods = MaxPeriods
    /\ ml_result.method = "insufficient_data"

\* The float mean of the last three values of the history.
MeanOfLastThree ==
    LET n == Len(History)
    IN  FDivInt(FAdd(FAdd(FromInt(History[n - 2]), FromInt(History[n - 1])),
                     FromInt(History[n])), 3)

\* x <= y
FLe(x, y) == ~FGt(x, y)

\* C23: forecast_expenses on a history with 3 or more values returns
\* method "moving_average", a forecast of exactly `periods` values each
\* equal to the mean of the last 3 history values, a baseline equal to that
\* mean, and a confidence_interval of exactly `periods` pairs (low, high)
\* with low <= forecast value <= high (periods being a count, >= 0).
C23_MovingAverage ==
    (ml_op = "forecast_expenses" /\ mpc = "done"
        /\ Len(History) >= 3 /\ periods >= 0) =>
        /\ ml_result.method = "moving_average"
        /\ Len(ml_result.forecast) = periods
        /\ \A i \in 1..Len(ml_result.forecast) :
               ml_result.forecast[i] = MeanOfLastThree
        /\ ml_result.baseline = MeanOfLastThree
        /\ Len(ml_result.confidence_interval) = periods
        /\ \A i \in 1..Len(ml_result.confidence_interval) :
               /\ FLe(ml_result.confidence_interval[i][1], ml_result.forecast[i])
               /\ FLe(ml_result.forecast[i], ml_result.confidence_interval[i][2])

\* A history of four values whose first value differs from each of the
\* last three was forecast for two periods, with an interval of non-zero
\* width around the forecast.
C23_Witness ==
    /\ ml_op = "forecast_expenses"
    /\ mpc = "done"
    /\ Len(History) = 4
    /\ \A k \in 2..4 : History[k] # History[1]
    /\ periods = 2
    /\ Len(ml_result.forecast) = 2
    /\ FGt(ml_result.forecast[1], ml_result.confidence_interval[1][1])
    /\ FGt(ml_result.confidence_interval[2][2], ml_result.forecast[2])

====
